---- MODULE Spec2Model ----
(***************************************************************************)
(* A model of libboard.py: the SQLite table "livros", the queries the      *)
(* dashboard runs on it, the pandas post-processing of each query result   *)
(* and the two Dash callbacks that filter the tables.                      *)
(*                                                                         *)
(* Conventions.                                                            *)
(*  - A nullable SQL value is a sequence of length 0 (NULL, read by pandas *)
(*    as None/NaN) or 1 (<<v>>).                                           *)
(*  - Prices are integers, in centavos; an average is a reduced fraction.  *)
(*  - A call either returns or raises: [kind, value].                      *)
(*  - A DataFrame is the sequence of its rows, each row a record.          *)
(***************************************************************************)
EXTENDS Integers, Sequences, FiniteSets, TLC

(* ------------------------------- state --------------------------------- *)

VARIABLES
    livros,                          \* the rows of the table livros
    ret,                             \* the last metric computed: [fn, arg, kind, value]
    dropdown_type_filter,            \* the value of the type dropdown
    table,                           \* the data of the table of books by type
    dropdown_year_filter,            \* the value of the year dropdown
    table_books_read_in_each_year,   \* the data of the table of readings
    layout,                          \* app.layout, built once when the module loads
    page                             \* the layout the last page request was served

vars == <<livros, ret, dropdown_type_filter, table, dropdown_year_filter,
          table_books_read_in_each_year, layout, page>>

(* ------------------------------ bounds --------------------------------- *)

\* the largest number of rows of the table livros
MaxRows == 2
\* years are the integers 0..MaxYear
MaxYear == 2
\* prices are the integers -1..MaxPrice
MaxPrice == 1

(* --------------------------- nullable values --------------------------- *)

Null == <<>>

Some(v) == <<v>>

IsNull(x) == x = <<>>

Val(x) == x[1]

(* ------------------------------ the table ------------------------------ *)

Titles == {"T1", "T2"}

Types == {"Físico", "Digital"}

Years == 0..MaxYear

Prices == (-1)..MaxPrice

Nullable(S) == {Null} \cup {Some(v) : v \in S}

Book(titulo, tipo, preco, aquisicao, leitura, acervo) ==
    [titulo |-> titulo, autor |-> "Autor", tipo |-> tipo, preco_pago |-> preco,
     ano_aquisicao |-> aquisicao, ano_primeira_leitura |-> leitura,
     copia_no_acervo |-> acervo]

\* Each query reads a few columns of livros; a family of tables varies the
\* columns one group of queries reads and holds the others fixed.
\* preco_pago x ano_aquisicao: the expenditure series and the total
ExpenditureBooks ==
    {Book("T1", "Físico", p, a, Null, Some(1)) :
        p \in Nullable(0..MaxPrice), a \in Nullable(Years)}

\* titulo x ano_primeira_leitura: the readings series
ReadingBooks ==
    {Book(t, "Físico", Null, Null, y, Some(1)) : t \in Titles, y \in Nullable(Years)}

\* tipo x titulo x ano_primeira_leitura: the two filtered tables
FilterBooks ==
    {Book(t, ty, Null, Null, y, Some(1)) :
        t \in Titles, ty \in Types, y \in Nullable(Years)}

\* tipo x preco_pago: the averages
PriceBooks ==
    {Book("T1", ty, p, Null, Null, Some(1)) : ty \in Types, p \in Nullable(Prices)}

\* two books of different author, title and type, every other column
\* present: tables the whole layout can be built on
ServedBooks ==
    {[Book(b[2], b[3], Some(MaxPrice), Some(MaxYear), Some(MaxYear), Some(1))
         EXCEPT !.autor = b[1]] :
        b \in {<<"Autor", "T1", "Físico">>, <<"Outro", "T2", "Digital">>}}

\* copia_no_acervo: the availability pie
AvailabilityBooks ==
    {Book("T1", "Físico", Null, Null, Null, f) : f \in Nullable({0, 1})}

SeqsUpTo(S, n) == UNION {[1..k -> S] : k \in 0..n}

\* the tables the metrics are computed on
MetricTables ==
    SeqsUpTo(ExpenditureBooks, MaxRows) \cup SeqsUpTo(ReadingBooks, MaxRows)
        \cup SeqsUpTo(PriceBooks, MaxRows) \cup SeqsUpTo(AvailabilityBooks, MaxRows)

\* the tables the two callbacks filter
FilterTables == SeqsUpTo(FilterBooks, MaxRows)

\* the tables the served application starts on
ServedTables == SeqsUpTo(ServedBooks, MaxRows)

Tables == MetricTables \cup FilterTables \cup ServedTables

(* --------------------------- sequence helpers -------------------------- *)

RECURSIVE SumSeq(_)
SumSeq(s) == IF s = <<>> THEN 0 ELSE s[1] + SumSeq(Tail(s))

RECURSIVE Flatten(_)
Flatten(ss) == IF ss = <<>> THEN <<>> ELSE ss[1] \o Flatten(Tail(ss))

Min(S) == CHOOSE x \in S : \A y \in S : x <= y

Max(S) == CHOOSE x \in S : \A y \in S : x >= y

\* the integers of the finite set S in ascending order
RECURSIVE Ascending(_)
Ascending(S) == IF S = {} THEN <<>> ELSE <<Min(S)>> \o Ascending(S \ {Min(S)})

Reverse(s) == [i \in 1..Len(s) |-> s[Len(s) + 1 - i]]

Range(s) == {s[i] : i \in 1..Len(s)}

RECURSIVE Gcd(_, _)
Gcd(a, b) == IF b = 0 THEN a ELSE Gcd(b, a % b)

(* ------------------------------ results -------------------------------- *)

Return(v) == [kind |-> "return", value |-> v]

Raise(e) == [kind |-> "raise", value |-> e]

Returned(r) == r.kind = "return"

Raised(r) == r.kind = "raise"

(* ----------------------------- SQL on livros --------------------------- *)

\* column col of the rows, as a sequence of nullable values
Column(rows, col) == [i \in 1..Len(rows) |-> rows[i][col]]

NotNull(vals) == SelectSeq(vals, LAMBDA v : ~IsNull(v))

\* sum(x): NULL values are skipped; NULL when no value is left
SqlSum(vals) ==
    LET present == NotNull(vals)
    IN  IF present = <<>> THEN Null
        ELSE Some(SumSeq([i \in 1..Len(present) |-> Val(present[i])]))

\* SqlAvg as COALESCE(avg(x), 0): 0 when no value is left
SqlAvgOrZero(vals) ==
    LET present == NotNull(vals)
        total   == SumSeq([i \in 1..Len(present) |-> Val(present[i])])
        n       == Len(present)
        abs     == IF total < 0 THEN -total ELSE total
        g       == Gcd(abs, n)
    IN  IF present = <<>> THEN Some([num |-> 0, den |-> 1])
        ELSE Some([num |-> total \div g, den |-> n \div g])

\* avg(x): NULL values are skipped; NULL when no value is left; the quotient is
\* kept exact, as the reduced fraction num/den with den > 0
SqlAvg(vals) ==
    LET present == NotNull(vals)
        total   == SumSeq([i \in 1..Len(present) |-> Val(present[i])])
        n       == Len(present)
        abs     == IF total < 0 THEN -total ELSE total
        g       == Gcd(abs, n)
    IN  IF present = <<>> THEN Null
        ELSE Some([num |-> total \div g, den |-> n \div g])

\* WHERE col IS NOT NULL
WhereNotNull(rows, col) == SelectSeq(rows, LAMBDA r : ~IsNull(r[col]))

\* WHERE col = v (false on NULL)
WhereEquals(rows, col, v) ==
    SelectSeq(rows, LAMBDA r : ~IsNull(r[col]) /\ Val(r[col]) = v)

\* the distinct non-NULL values of an integer column
Distinct(rows, col) == {Val(v) : v \in Range(Column(rows, col)) \ {Null}}

\* SELECT sum(preco_pago) AS "TotalPago" FROM livros: one row
query_total_price_paid(db) == <<[TotalPago |-> SqlSum(Column(db, "preco_pago"))]>>

\* SELECT ano_primeira_leitura AS ano, COUNT(*) AS leituras ... WHERE
\* ano_primeira_leitura IS NOT NULL GROUP BY ano_primeira_leitura ORDER BY ano DESC.
\* The counted column is named valor here, as the summed one below, so that
\* the gap filling of both is one definition.
query_books_by_year(db) ==
    LET rows == WhereNotNull(db, "ano_primeira_leitura")
        anos == Reverse(Ascending(Distinct(rows, "ano_primeira_leitura")))
    IN  [i \in 1..Len(anos) |->
            [ano |-> anos[i],
             valor |-> Some(Len(WhereEquals(rows, "ano_primeira_leitura", anos[i])))]]

\* SELECT ano_aquisicao AS "ano", sum(preco_pago) AS "valor gasto" ... WHERE
\* ano_aquisicao IS NOT NULL GROUP BY ano_aquisicao (groups come out in key order)
query_expenditure_by_year(db) ==
    LET rows == WhereNotNull(db, "ano_aquisicao")
        anos == Ascending(Distinct(rows, "ano_aquisicao"))
    IN  [i \in 1..Len(anos) |->
            [ano |-> anos[i],
             valor |-> SqlSum(Column(WhereEquals(rows, "ano_aquisicao", anos[i]),
                                     "preco_pago"))]]

(* ------------------------------- pandas -------------------------------- *)

\* range(a, b)
range(a, b) == [i \in 1..(b - a) |-> a + i - 1]

\* merge_left with how="inner": the years without a row of df are dropped
merge_inner(all_years, df) ==
    Flatten([i \in 1..Len(all_years) |->
        SelectSeq(df, LAMBDA r : r.ano = all_years[i])])

\* pd.DataFrame({"ano": all_years}).merge(df, on="ano", how="left"): the left
\* rows in order, each once per matching row of df, or once with NaN
merge_left(all_years, df) ==
    Flatten([i \in 1..Len(all_years) |->
        LET hits == SelectSeq(df, LAMBDA r : r.ano = all_years[i])
        IN  IF hits = <<>> THEN <<[ano |-> all_years[i], valor |-> Null]>> ELSE hits])

\* .fillna(0)
fillna0(df) ==
    [i \in 1..Len(df) |->
        [ano |-> df[i].ano, valor |-> IF IsNull(df[i].valor) THEN 0 ELSE Val(df[i].valor)]]

\* "Fill missing years with 0": Series.min() of an empty column is nan, and
\* range(nan, nan + 1) raises
fill_missing_years(df) ==
    IF df = <<>>
    THEN Raise("TypeError: 'float' object cannot be interpreted as an integer")
    ELSE LET anos == {df[i].ano : i \in 1..Len(df)}
         IN  Return(fillna0(merge_left(range(Min(anos), Max(anos) + 1), df)))

\* Series.cumsum()
cumsum(vals) == [i \in 1..Len(vals) |-> SumSeq(SubSeq(vals, 1, i))]

\* f"{x:.2f}" of x centavos / 100: None has no such format; a number is written
\* with its sign, its integer part and two decimal digits
format_2f(x) ==
    IF IsNull(x)
    THEN Raise("TypeError: unsupported format string passed to NoneType.__format__")
    ELSE LET v == Val(x)
             abs == IF v < 0 THEN -v ELSE v
         IN  Return([negative |-> v < 0, reais |-> abs \div 100,
                     centavos |-> <<(abs % 100) \div 10, abs % 10>>])

(* --------------------------- python values ----------------------------- *)

\* the value of a dropdown: None, a list or an integer
PyNone == [py |-> "None", v |-> <<>>]

PyList(items) == [py |-> "list", v |-> items]

PyInt(n) == [py |-> "int", v |-> <<n>>]

\* bool(x): None, the empty list and 0 are false
truthy(x) ==
    CASE x.py = "None" -> FALSE
      [] x.py = "list" -> x.v # <<>>
      [] x.py = "int"  -> x.v[1] # 0

(* ------------------------------ the metrics ---------------------------- *)

\* the total price paid: the sum read from the one row of the query
get_total_price_paid(db) == Return(query_total_price_paid(db)[1].TotalPago)

\* the readings per year, every year of the range present
get_books_by_year(db) ==
    LET filled == fill_missing_years(query_books_by_year(db))
    IN  IF Raised(filled) THEN filled ELSE Return([data |-> filled.value])

\* the expenditure per year with its running total and the label of the total
get_expenditure_by_year(db) ==
    LET filled == fill_missing_years(query_expenditure_by_year(db))
    IN  IF Raised(filled) THEN filled
        ELSE LET df    == filled.value
                 acc   == cumsum([i \in 1..Len(df) |-> df[i].valor])
                 total == get_total_price_paid(db).value
                 text  == format_2f(total)
             IN  IF Raised(text) THEN text
                 ELSE Return([data |-> [i \in 1..Len(df) |->
                                  [ano |-> df[i].ano, valor |-> df[i].valor,
                                   acumulado |-> acc[i]]],
                              annotation |-> text.value])

\* WHERE preco_pago > 0 (false on NULL)
WherePricePositive(rows) ==
    SelectSeq(rows, LAMBDA r : ~IsNull(r.preco_pago) /\ Val(r.preco_pago) > 0)

\* the indicator of the average price: its value is what avg() gave
get_avg_books_price(db) ==
    Return([value |-> SqlAvg(Column(WherePricePositive(db), "preco_pago"))])

\* the same over the rows of one type
get_avg_book_price_by_type(db, type) ==
    Return([value |-> SqlAvg(Column(
        WherePricePositive(SelectSeq(db, LAMBDA r : r.tipo = type)), "preco_pago"))])

\* map_availability with the two labels exchanged
map_availability_swapped(flag) ==
    IF flag = Some(1) THEN "Não disponível"
    ELSE IF flag = Some(0) THEN "Disponível"
    ELSE "NaN"

\* Series.map({1: "Disponível", 0: "Não disponível"}): NaN for any other key
map_availability(flag) ==
    IF flag = Some(1) THEN "Disponível"
    ELSE IF flag = Some(0) THEN "Não disponível"
    ELSE "NaN"

\* SELECT copia_no_acervo, count(*) ... GROUP BY copia_no_acervo, then the
\* flag replaced by its label; the groups come out in key order, NULL first
get_books_availability(db) ==
    LET flags == <<Null, Some(0), Some(1)>>
        group(f) == SelectSeq(db, LAMBDA r : r.copia_no_acervo = f)
    IN  Return(Flatten([i \in 1..Len(flags) |->
            IF group(flags[i]) = <<>> THEN <<>>
            ELSE <<[Disponivel |-> map_availability(flags[i]),
                    Quantidade |-> Len(group(flags[i]))]>>]))

\* SELECT autor, count(*) ... GROUP BY autor ORDER BY autor ASC
get_books_by_author_count(db) ==
    LET autores == <<"Autor", "Outro">>
        group(a) == SelectSeq(db, LAMBDA r : r.autor = a)
    IN  Return(Flatten([i \in 1..Len(autores) |->
            IF group(autores[i]) = <<>> THEN <<>>
            ELSE <<[Autor |-> autores[i], Count |-> Len(group(autores[i]))]>>]))

\* SELECT tipo, count(tipo) ... GROUP BY tipo (groups in key order)
get_count_books_by_types(db) ==
    LET tipos == <<"Digital", "Físico">>
        group(t) == SelectSeq(db, LAMBDA r : r.tipo = t)
    IN  Return(Flatten([i \in 1..Len(tipos) |->
            IF group(tipos[i]) = <<>> THEN <<>>
            ELSE <<[tipo |-> tipos[i], quantidade |-> Len(group(tipos[i]))]>>]))

\* SELECT titulo, preco_pago ... ORDER BY preco_pago DESC (NULL last, rows of
\* one price in table order)
get_books_prices(db) ==
    LET precos == Reverse(Ascending(Distinct(db, "preco_pago")))
        of(p)  == WhereEquals(db, "preco_pago", p)
        row(r) == [Titulo |-> r.titulo, Preco_pago |-> r.preco_pago]
        nulls  == SelectSeq(db, LAMBDA r : IsNull(r.preco_pago))
    IN  Flatten([i \in 1..Len(precos) |->
                    [j \in 1..Len(of(precos[i])) |-> row(of(precos[i])[j])]])
            \o [j \in 1..Len(nulls) |-> row(nulls[j])]

\* SELECT titulo, autor ... WHERE copia_no_acervo IS FALSE
get_books_not_available(db) ==
    LET rows == WhereEquals(db, "copia_no_acervo", 0)
    IN  [i \in 1..Len(rows) |-> [Titulo |-> rows[i].titulo, Autor |-> rows[i].autor]]

(* ------------------------- the filtered tables ------------------------- *)

\* SELECT tipo AS Tipo, titulo AS Título, autor AS Autor FROM livros
get_books_by_type(db) ==
    [i \in 1..Len(db) |->
        [Tipo |-> db[i].tipo, Titulo |-> db[i].titulo, Autor |-> db[i].autor]]

\* SELECT titulo, ano_primeira_leitura ... WHERE ano_primeira_leitura IS NOT
\* NULL ORDER BY ano_primeira_leitura DESC (rows of one year in table order)
get_books_read_in_each_year(db) ==
    LET rows == WhereNotNull(db, "ano_primeira_leitura")
        anos == Reverse(Ascending(Distinct(rows, "ano_primeira_leitura")))
        of(y) == WhereEquals(rows, "ano_primeira_leitura", y)
    IN  Flatten([i \in 1..Len(anos) |->
            [j \in 1..Len(of(anos[i])) |->
                [Titulo |-> of(anos[i])[j].titulo, Ano_da_leitura |-> anos[i]]]])

\* update_table testing "selected_types is None": an empty list filters
update_table_is_none(db, selected_types) ==
    LET df_books_by_type == get_books_by_type(db)
    IN  Return(IF selected_types.py = "None" THEN df_books_by_type
               ELSE SelectSeq(df_books_by_type,
                              LAMBDA r : r.Tipo \in Range(selected_types.v)))

\* update_table comparing with the first selected type only
update_table_first(db, selected_types) ==
    LET df_books_by_type == get_books_by_type(db)
    IN  Return(IF ~truthy(selected_types) THEN df_books_by_type
               ELSE SelectSeq(df_books_by_type,
                              LAMBDA r : r.Tipo = selected_types.v[1]))

\* update_table filtering the rows the table shows instead of the query's
update_table_incremental(db, selected_types) ==
    LET shown == IF table.kind = "return" THEN table.value ELSE get_books_by_type(db)
    IN  Return(IF ~truthy(selected_types) THEN shown
               ELSE SelectSeq(shown, LAMBDA r : r.Tipo \in Range(selected_types.v)))

\* the callback of dropdown-type-filter
update_table(db, selected_types) ==
    LET df_books_by_type == get_books_by_type(db)
    IN  Return(IF ~truthy(selected_types) THEN df_books_by_type
               ELSE SelectSeq(df_books_by_type,
                              LAMBDA r : r.Tipo \in Range(selected_types.v)))

\* update_table_books_read_in_each_year keeping only the titles the type
\* table shows: the two callbacks sharing what they display
update_table_books_read_in_each_year_shared(db, selected_year) ==
    LET read == get_books_read_in_each_year(db)
        df_books_read_in_each_year ==
            IF table.kind = "return"
            THEN SelectSeq(read, LAMBDA r :
                     \E i \in 1..Len(table.value) : table.value[i].Titulo = r.Titulo)
            ELSE read
    IN  Return(IF ~truthy(selected_year) THEN df_books_read_in_each_year
               ELSE SelectSeq(df_books_read_in_each_year,
                              LAMBDA r : r.Ano_da_leitura = selected_year.v[1]))

\* the callback of dropdown-year-filter
update_table_books_read_in_each_year(db, selected_year) ==
    LET df_books_read_in_each_year == get_books_read_in_each_year(db)
    IN  Return(IF ~truthy(selected_year) THEN df_books_read_in_each_year
               ELSE SelectSeq(df_books_read_in_each_year,
                              LAMBDA r : r.Ano_da_leitura = selected_year.v[1]))

(* ------------------------------ the layout ----------------------------- *)

\* Series.unique(): the values in the order of their first appearance
RECURSIVE unique(_)
unique(vals) ==
    IF vals = <<>> THEN <<>>
    ELSE LET front == unique(SubSeq(vals, 1, Len(vals) - 1))
         IN  IF vals[Len(vals)] \in Range(front) THEN front
             ELSE Append(front, vals[Len(vals)])

\* the component tree assigned to app.layout: its figures, dropdown options
\* and table data, each computed by a call made while the tree is built; the
\* first call that raises ends the construction
build_layout(db) ==
    LET by_year     == get_books_by_year(db)
        expenditure == get_expenditure_by_year(db)
        by_type     == get_books_by_type(db)
        read        == get_books_read_in_each_year(db)
    IN  IF Raised(by_year) THEN by_year
        ELSE IF Raised(expenditure) THEN expenditure
        ELSE Return(
            [books_count_bar |-> get_books_by_author_count(db).value,
             books_by_year_bar |-> by_year.value,
             expenditure_by_year_bar |-> expenditure.value,
             books_types_pie |-> get_count_books_by_types(db).value,
             books_availability_pie |-> get_books_availability(db).value,
             dropdown_type_options |->
                 unique([i \in 1..Len(by_type) |-> by_type[i].Tipo]),
             dropdown_year_options |->
                 unique([i \in 1..Len(read) |-> read[i].Ano_da_leitura]),
             table_books_prices |-> get_books_prices(db),
             avg_book_price |-> get_avg_books_price(db).value,
             avg_book_price_by_type_physical |->
                 get_avg_book_price_by_type(db, "Físico").value,
             avg_book_price_by_type_digital |->
                 get_avg_book_price_by_type(db, "Digital").value,
             table_books_not_available |-> get_books_not_available(db)])

(* --------------------------- the state machine ------------------------- *)

\* a table no callback has filled yet
NoData == [kind |-> "nodata", value |-> <<>>]

\* no metric computed yet
NoCall == [fn |-> "none", arg |-> "", kind |-> "nodata", value |-> <<>>]

Called(fn, arg, r) == [fn |-> fn, arg |-> arg, kind |-> r.kind, value |-> r.value]

\* the values the type dropdown (multi=True) sends
TypeSelections ==
    {PyNone, PyList(<<>>), PyList(<<"Físico">>), PyList(<<"Digital">>),
     PyList(<<"Físico", "Digital">>)}

\* the values the year dropdown sends
YearSelections == {PyNone, PyList(<<>>)} \cup {PyInt(y) : y \in Years}

Start ==
    /\ ret = NoCall
    /\ dropdown_type_filter = PyNone
    /\ table = NoData
    /\ dropdown_year_filter = PyNone
    /\ table_books_read_in_each_year = NoData
    /\ layout = NoData
    /\ page = NoData

Init == livros \in Tables /\ Start

InitMetrics == livros \in MetricTables /\ Start

InitFilters == livros \in FilterTables /\ Start

InitServed == livros \in ServedTables /\ Start

\* what a metric leaves alone
others == <<livros, dropdown_type_filter, table, dropdown_year_filter,
            table_books_read_in_each_year, layout, page>>

TotalPricePaid ==
    /\ ret' = Called("get_total_price_paid", "", get_total_price_paid(livros))
    /\ UNCHANGED others

BooksByYear ==
    /\ ret' = Called("get_books_by_year", "", get_books_by_year(livros))
    /\ UNCHANGED others

ExpenditureByYear ==
    /\ ret' = Called("get_expenditure_by_year", "", get_expenditure_by_year(livros))
    /\ UNCHANGED others

AvgBooksPrice ==
    /\ ret' = Called("get_avg_books_price", "", get_avg_books_price(livros))
    /\ UNCHANGED others

AvgBookPriceByType ==
    \E type \in Types :
        /\ ret' = Called("get_avg_book_price_by_type", type,
                         get_avg_book_price_by_type(livros, type))
        /\ UNCHANGED others

BooksAvailability ==
    /\ ret' = Called("get_books_availability", "", get_books_availability(livros))
    /\ UNCHANGED others

UpdateTable ==
    \E selected_types \in TypeSelections :
        /\ dropdown_type_filter' = selected_types
        /\ table' = update_table(livros, selected_types)
        /\ UNCHANGED <<livros, ret, dropdown_year_filter, table_books_read_in_each_year,
                       layout, page>>

UpdateTableBooksReadInEachYear ==
    \E selected_year \in YearSelections :
        /\ dropdown_year_filter' = selected_year
        /\ table_books_read_in_each_year' =
               update_table_books_read_in_each_year(livros, selected_year)
        /\ UNCHANGED <<livros, ret, dropdown_type_filter, table, layout, page>>

\* the module is loaded: app.layout is built, once
Import ==
    /\ layout = NoData
    /\ layout' = build_layout(livros)
    /\ UNCHANGED <<livros, ret, dropdown_type_filter, table, dropdown_year_filter,
                   table_books_read_in_each_year, page>>

\* what a write to the database leaves alone
application == <<ret, dropdown_type_filter, table, dropdown_year_filter,
                 table_books_read_in_each_year, layout, page>>

\* a row is added to livros, in the file at DB_PATH, by whoever maintains it
DbInsert ==
    \E book \in ServedBooks :
        /\ Len(livros) < MaxRows
        /\ livros' = Append(livros, book)
        /\ UNCHANGED application

\* a row of livros is deleted
DbDelete ==
    \E i \in 1..Len(livros) :
        /\ livros' = SubSeq(livros, 1, i - 1) \o SubSeq(livros, i + 1, Len(livros))
        /\ UNCHANGED application

\* a page request: Dash serves the tree app.layout holds
ServePage ==
    /\ Returned(layout)
    /\ page' = layout
    /\ UNCHANGED <<livros, ret, dropdown_type_filter, table, dropdown_year_filter,
                   table_books_read_in_each_year, layout>>

\* the callbacks of the running application
ServedUpdateTable == Returned(layout) /\ UpdateTable

ServedUpdateTableBooksReadInEachYear ==
    Returned(layout) /\ UpdateTableBooksReadInEachYear

\* a request for one of the metrics
NextMetrics ==
    \/ TotalPricePaid
    \/ BooksByYear
    \/ ExpenditureByYear
    \/ AvgBooksPrice
    \/ AvgBookPriceByType
    \/ BooksAvailability

\* a selection in one of the two dropdowns
NextFilters ==
    \/ UpdateTable
    \/ UpdateTableBooksReadInEachYear

Next == NextMetrics \/ NextFilters

Spec == Init /\ [][Next]_vars

\* the metrics alone, on the tables that vary the columns they read
SpecMetrics == InitMetrics /\ [][NextMetrics]_vars

\* the callbacks alone, on the tables that vary the columns they read
SpecFilters == InitFilters /\ [][NextFilters]_vars

\* the application from its start, the database written to while it runs
NextServed ==
    \/ Import
    \/ DbInsert
    \/ DbDelete
    \/ ServePage
    \/ ServedUpdateTable
    \/ ServedUpdateTableBooksReadInEachYear

SpecServed == InitServed /\ [][NextServed]_vars

(* ============================== the claims ============================= *)

\* the last metric is one of the two yearly series
SeriesCall == ret.fn \in {"get_books_by_year", "get_expenditure_by_year"}

\* the sparse series the last yearly metric read from livros
Sparse ==
    IF ret.fn = "get_books_by_year" THEN query_books_by_year(livros)
    ELSE query_expenditure_by_year(livros)

Last(s) == s[Len(s)]

(* ---- C1 ---- *)

\* C1: whenever get_expenditure_by_year returns, the last element of its
\* cumulative series equals the total get_total_price_paid computes over the
\* same rows.
C1_CumulativeLastIsTotal ==
    (ret.fn = "get_expenditure_by_year" /\ Returned(ret)) =>
        Some(Last(ret.value.data).acumulado) = get_total_price_paid(livros).value

(* ---- C2 ---- *)

\* series has one entry per year of [min, max] of the sparse series, a year
\* of the sparse series with its value there and any other year with 0; with
\* nullIsZero a NULL value of the sparse series counts as 0
GapFilled(sparse, series, nullIsZero) ==
    LET anos == {sparse[i].ano : i \in 1..Len(sparse)}
        lo   == Min(anos)
        hi   == Max(anos)
        at(y) == {k \in 1..Len(series) : series[k].ano = y}
        from(y) == {i \in 1..Len(sparse) : sparse[i].ano = y}
    IN  /\ Len(series) = hi - lo + 1
        /\ \A y \in lo..hi : Cardinality(at(y)) = 1
        /\ \A k \in 1..Len(series) :
              /\ series[k].ano \in lo..hi
              /\ IF from(series[k].ano) = {} THEN series[k].valor = 0
                 ELSE \A i \in from(series[k].ano) :
                        IF nullIsZero /\ IsNull(sparse[i].valor)
                        THEN series[k].valor = 0
                        ELSE Some(series[k].valor) = sparse[i].valor

\* C2 as stated: a returned yearly series has exactly one entry per year of
\* [minYear, maxYear], each year of the sparse mapping with its original value
\* and every other year with 0.
C2_Original ==
    (SeriesCall /\ Returned(ret)) =>
        GapFilled(Sparse, [i \in 1..Len(ret.value.data) |->
            [ano |-> ret.value.data[i].ano, valor |-> ret.value.data[i].valor]], FALSE)

\* C2 amended: a returned yearly series has exactly one entry per year of
\* [minYear, maxYear]; a year of the sparse mapping has its original value,
\* or 0 when that value is NULL (no price present in the year), and every
\* other year has 0. On a non-empty sparse mapping the gap filling itself
\* never raises.
C2_GapFilled ==
    /\ (SeriesCall /\ Returned(ret)) =>
          GapFilled(Sparse, [i \in 1..Len(ret.value.data) |->
              [ano |-> ret.value.data[i].ano, valor |-> ret.value.data[i].valor]], TRUE)
    /\ (ret.fn = "get_books_by_year" /\ Sparse # <<>>) => Returned(ret)

\* the expenditure series returned with a gap year filled in, one year
\* whose sum is NULL and one whose sum is a price
C2_Witness ==
    /\ ret.fn = "get_expenditure_by_year" /\ Returned(ret)
    /\ Len(Sparse) = 2 /\ Len(ret.value.data) = 3
    /\ \E i \in 1..2 : IsNull(Sparse[i].valor)
    /\ \E i \in 1..2 : ~IsNull(Sparse[i].valor) /\ Val(Sparse[i].valor) > 0

(* ---- C3 ---- *)

\* C3: when the sparse series is empty, the yearly metric returns an empty
\* series and does not raise.
C3_EmptySeriesIsEmpty ==
    (SeriesCall /\ Sparse = <<>>) => (Returned(ret) /\ ret.value.data = <<>>)

(* ---- C4 ---- *)

\* no selection: None or the empty list
EmptySelection(x) == x = PyNone \/ x = PyList(<<>>)

\* the rows the year filter starts from: those with a year of first reading
ReadRows == get_books_read_in_each_year(livros)

\* C4: with an empty selection (None or the empty list) each callback
\* returns, without raising, all the rows of its query in the query's order.
C4_EmptySelectionIsIdentity ==
    /\ (table # NoData /\ EmptySelection(dropdown_type_filter)) =>
          table = Return(get_books_by_type(livros))
    /\ (table_books_read_in_each_year # NoData /\ EmptySelection(dropdown_year_filter)) =>
          table_books_read_in_each_year = Return(ReadRows)

\* both dropdowns cleared to the empty list over tables of two rows
C4_Witness ==
    /\ dropdown_type_filter = PyList(<<>>) /\ table.kind = "return"
    /\ dropdown_year_filter = PyList(<<>>)
    /\ table_books_read_in_each_year.kind = "return"
    /\ Len(table.value) = 2 /\ Len(table_books_read_in_each_year.value) = 2

(* ---- C5 ---- *)

\* C5: with one integer year y selected, 0 included, the year callback
\* returns exactly the rows of its query whose year of first reading is y.
C5_YearSelectsItsRows ==
    (table_books_read_in_each_year # NoData /\ dropdown_year_filter.py = "int") =>
        /\ Returned(table_books_read_in_each_year)
        /\ table_books_read_in_each_year.value =
              SelectSeq(ReadRows,
                        LAMBDA r : r.Ano_da_leitura = dropdown_year_filter.v[1])

(* ---- C6 ---- *)

\* how many times row r occurs in s
Occurrences(s, r) == Cardinality({i \in 1..Len(s) : s[i] = r})

\* sub can be read off seq from left to right, skipping rows
RECURSIVE IsSubsequence(_, _)
IsSubsequence(sub, seq) ==
    IF sub = <<>> THEN TRUE
    ELSE IF seq = <<>> THEN FALSE
    ELSE IF sub[1] = seq[1] THEN IsSubsequence(Tail(sub), Tail(seq))
    ELSE IsSubsequence(sub, Tail(seq))

\* C6: with a non-empty list S of types selected, the type callback returns
\* the rows of its query whose type is in S: no row of another type, every
\* row of a selected type as often as in the query, in the query's order.
C6_TypeSelectsItsRows ==
    (table # NoData /\ dropdown_type_filter.py = "list"
        /\ dropdown_type_filter.v # <<>>) =>
        LET S    == Range(dropdown_type_filter.v)
            base == get_books_by_type(livros)
        IN  /\ Returned(table)
            /\ \A i \in 1..Len(table.value) : table.value[i].Tipo \in S
            /\ \A i \in 1..Len(base) :
                  base[i].Tipo \in S =>
                      Occurrences(table.value, base[i]) = Occurrences(base, base[i])
            /\ IsSubsequence(table.value, base)

\* one type selected over a table holding a row of each type
C6_Witness ==
    /\ dropdown_type_filter = PyList(<<"Digital">>) /\ table.kind = "return"
    /\ Len(livros) = 2 /\ livros[1].tipo = "Físico" /\ livros[2].tipo = "Digital"
    /\ Len(table.value) = 1

(* ---- C7 ---- *)

\* what the type callback shows for a selection, from the query alone
TypeView(sel) ==
    LET base == get_books_by_type(livros)
    IN  IF EmptySelection(sel) THEN base
        ELSE SelectSeq(base, LAMBDA r : \E i \in 1..Len(sel.v) : sel.v[i] = r.Tipo)

\* what the year callback shows for a selection, from the query alone
YearView(sel) ==
    IF EmptySelection(sel) \/ sel = PyInt(0) THEN ReadRows
    ELSE SelectSeq(ReadRows, LAMBDA r : PyInt(r.Ano_da_leitura) = sel)

\* C7: with livros unchanged, whatever selections were made before, the data
\* of each table is a function of its query and of the selection now in its
\* dropdown alone: the same selection always shows the same rows, and an
\* empty selection shows all the rows of the query again.
C7_OnlyTheLastSelection ==
    /\ table # NoData => table = Return(TypeView(dropdown_type_filter))
    /\ table_books_read_in_each_year # NoData =>
          table_books_read_in_each_year = Return(YearView(dropdown_year_filter))

\* both tables show every row again, the selections cleared to the empty
\* list (a value a dropdown takes only after a selection was made)
C7_Witness ==
    /\ dropdown_type_filter = PyList(<<>>) /\ dropdown_year_filter = PyList(<<>>)
    /\ Len(livros) = 2 /\ livros[1].tipo # livros[2].tipo /\ Len(ReadRows) = 2
    /\ table = Return(get_books_by_type(livros))
    /\ table_books_read_in_each_year = Return(ReadRows)

(* ---- C8 ---- *)

\* the last metric is one of the two averages
AvgCall == ret.fn \in {"get_avg_books_price", "get_avg_book_price_by_type"}

\* the rows the last average is taken over: a price above 0 and, for the
\* average of a type, that type
Qualifying ==
    {i \in 1..Len(livros) :
        /\ ~IsNull(livros[i].preco_pago) /\ Val(livros[i].preco_pago) > 0
        /\ (ret.fn = "get_avg_book_price_by_type" => livros[i].tipo = ret.arg)}

\* C8: an average returns and never raises; with no qualifying row its value
\* is the undefined one (None), which is no number and so not 0, and with a
\* qualifying row it is a number (above 0, as every qualifying price is).
C8_NoQualifyingRowIsUndefined ==
    AvgCall =>
        /\ Returned(ret)
        /\ (Qualifying = {}) = IsNull(ret.value.value)
        /\ Qualifying # {} => Val(ret.value.value).num > 0

\* the average of the Digital books asked for when only a Físico book has
\* a price above 0
C8_Witness ==
    /\ ret.fn = "get_avg_book_price_by_type" /\ ret.arg = "Digital"
    /\ Returned(ret) /\ IsNull(ret.value.value)
    /\ \E i \in 1..Len(livros) : livros[i].tipo = "Digital"
    /\ \E i \in 1..Len(livros) :
          livros[i].tipo = "Físico" /\ livros[i].preco_pago = Some(1)

(* ---- C9 ---- *)

\* no row of livros has a price
NoPricePresent == \A i \in 1..Len(livros) : IsNull(livros[i].preco_pago)

\* C9: when no row has a price, the total is returned as the undefined value
\* and the label of the total, once the yearly series is built, is computed
\* without raising.
C9_NoPriceNeverThrows ==
    NoPricePresent =>
        /\ ret.fn = "get_total_price_paid" => (Returned(ret) /\ IsNull(ret.value))
        /\ (ret.fn = "get_expenditure_by_year"
              /\ query_expenditure_by_year(livros) # <<>>) => Returned(ret)

(* ---- C10 ---- *)

\* the labels of the availability pie
Labels == {ret.value[i].Disponivel : i \in 1..Len(ret.value)}

\* the rows of livros whose flag is f
WithFlag(f) == {i \in 1..Len(livros) : livros[i].copia_no_acervo = f}

\* C10 as stated: the availability aggregate has exactly the two labels.
C10_Original ==
    ret.fn = "get_books_availability" =>
        (Returned(ret) /\ Labels = {"Disponível", "Não disponível"})

\* C10 amended: the availability aggregate has one entry per flag value that
\* occurs in the rows, counting its rows: "Disponível" exactly when a row has
\* flag 1, "Não disponível" exactly when a row has flag 0, and another label
\* only when a row has a flag that is neither.
C10_LabelsOfTheFlagsPresent ==
    ret.fn = "get_books_availability" =>
        /\ Returned(ret)
        /\ Cardinality(Labels) = Len(ret.value)
        /\ ("Disponível" \in Labels) = (WithFlag(Some(1)) # {})
        /\ ("Não disponível" \in Labels) = (WithFlag(Some(0)) # {})
        /\ (Labels \subseteq {"Disponível", "Não disponível"}) = (WithFlag(Null) = {})
        /\ \A i \in 1..Len(ret.value) :
              /\ ret.value[i].Disponivel = "Disponível" =>
                    ret.value[i].Quantidade = Cardinality(WithFlag(Some(1)))
              /\ ret.value[i].Disponivel = "Não disponível" =>
                    ret.value[i].Quantidade = Cardinality(WithFlag(Some(0)))

\* the pie of a table with one book in the collection and one not
C10_Witness ==
    /\ ret.fn = "get_books_availability" /\ Returned(ret)
    /\ Len(livros) = 2 /\ WithFlag(Some(1)) # {} /\ WithFlag(Some(0)) # {}
    /\ Labels = {"Disponível", "Não disponível"}

(* ---- C11 ---- *)

\* what the type callback shows for a selection on the rows db
TypeViewOf(db, sel) ==
    LET base == get_books_by_type(db)
    IN  IF EmptySelection(sel) THEN base
        ELSE SelectSeq(base, LAMBDA r : \E i \in 1..Len(sel.v) : sel.v[i] = r.Tipo)

\* what the year callback shows for a selection on the rows db
YearViewOf(db, sel) ==
    LET read == get_books_read_in_each_year(db)
    IN  IF EmptySelection(sel) \/ sel = PyInt(0) THEN read
        ELSE SelectSeq(read, LAMBDA r : PyInt(r.Ano_da_leitura) = sel)

\* C11: every request reflects the rows livros holds when it is made: a page
\* request is served the figures, table data and dropdown options computed
\* from the current rows, and a selection event fills its table from the
\* current rows, whatever was read before the rows changed.
C11_RequestsReflectCurrentRows ==
    [][ /\ page' # page => page' = build_layout(livros')
        /\ table' # table =>
              table' = Return(TypeViewOf(livros', dropdown_type_filter'))
        /\ table_books_read_in_each_year' # table_books_read_in_each_year =>
              table_books_read_in_each_year' =
                  Return(YearViewOf(livros', dropdown_year_filter'))
      ]_vars

(* ---- C12 ---- *)

\* C12: under any interleaving of selection events on the two dropdowns, the
\* table of each filter is always the view of its own query under its own
\* current selection alone, whatever the other filter holds; a step that
\* changes the selection or the table of one filter leaves the selection and
\* the table of the other as they were; and no step changes the rows of livros.
C12_FiltersAreIndependent ==
    /\ [](/\ table # NoData =>
                table = Return(TypeViewOf(livros, dropdown_type_filter))
          /\ table_books_read_in_each_year # NoData =>
                table_books_read_in_each_year =
                    Return(YearViewOf(livros, dropdown_year_filter)))
    /\ [][ /\ livros' = livros
           /\ (dropdown_type_filter' # dropdown_type_filter \/ table' # table) =>
                 /\ dropdown_year_filter' = dropdown_year_filter
                 /\ table_books_read_in_each_year' = table_books_read_in_each_year
           /\ (\/ dropdown_year_filter' # dropdown_year_filter
               \/ table_books_read_in_each_year' # table_books_read_in_each_year) =>
                 /\ dropdown_type_filter' = dropdown_type_filter
                 /\ table' = table
         ]_vars

\* both filters hold a selection at once and each table shows some of the
\* rows of its query, not all: one type of two, one reading year of two
C12_Witness ==
    /\ dropdown_type_filter.py = "list" /\ Len(dropdown_type_filter.v) = 1
    /\ dropdown_year_filter.py = "int" /\ dropdown_year_filter # PyInt(0)
    /\ table = Return(TypeView(dropdown_type_filter))
    /\ table_books_read_in_each_year = Return(YearView(dropdown_year_filter))
    /\ Len(table.value) = 1 /\ Len(get_books_by_type(livros)) = 2
    /\ Len(table_books_read_in_each_year.value) = 1 /\ Len(ReadRows) = 2
    /\ table.value[1].Titulo # table_books_read_in_each_year.value[1].Titulo

====
